---- MODULE Spec2Model ----
(***************************************************************************)
(* Credit ledger of the ORO web application.                               *)
(*                                                                         *)
(* State: the organizations.credit_balance column and the credit_ledger    *)
(* table (0001_initial_schema.sql), and the position of every in-flight    *)
(* request of the credits router (creatorDna.ts, creditsRouter).           *)
(*                                                                         *)
(* A consume or grant request makes two separate round trips to the        *)
(* database: a SELECT of organizations.credit_balance and, later, an       *)
(* INSERT into credit_ledger.  Each round trip is one statement and is     *)
(* atomic; the AFTER INSERT trigger update_credit_balance_on_ledger_insert  *)
(* runs inside the INSERT statement.  Nothing makes the two round trips    *)
(* of one request atomic, so requests of different callers interleave      *)
(* between them.                                                           *)
(***************************************************************************)
EXTENDS Integers, Sequences, FiniteSets, TLC

\* ---------------------------------------------------------------- bounds

\* Requests issued in one behaviour of Spec, over all callers.
MaxRequests == 2

\* Requests issued in one behaviour of SerialSpec.
MaxSerialRequests == 3

\* Requests issued in one behaviour of ConnSpec.
MaxConnRequests == 2

\* Requests issued in one behaviour of RecSpec.
MaxRecRequests == 3

\* Requests issued in MeSpec.
MaxMeRequests == 3

\* Requests issued in one behaviour of ClockSpec.
MaxClockRequests == 2

\* The clock stops advancing once it shows this many days.
MaxNow == 45

\* Days the clock advances by between two statements.
TickSteps == {15, 30}

\* Concurrent callers (tRPC requests in flight at the same time).
Procs == {"p1", "p2"}

\* Organizations (tenants) present in the organizations table.
Orgs == {"orgA", "orgB"}

\* Positive integer amounts a caller passes as input.amount of consume.
ConsumeAmounts == {30, 500, 600, 2000}

\* Positive integer amounts a caller passes as input.amount of grant.
GrantAmounts == {500}

\* Amounts that input.amount: z.number().positive() refuses.
InvalidAmounts == {0, 0 - 30}

\* input.description of consume (any string of at most 500 characters) and
\* of grant.
ConsumeDescriptions == {"script_generation", "constructor"}
GrantDescriptions == {"promo"}

\* input.limit, input.offset and input.type of history ("any": no type).
HistoryLimits == {1, 2}
HistoryOffsets == {0, 1}
HistoryTypes == {"any", "grant", "consumption"}

\* input.platform, input.account_id, input.access_token and
\* input.refresh_token (optional) of the platform connection router; the
\* access token and the account the Instagram callback obtains.
Platforms == {"instagram", "youtube"}
Accounts == {"acct1", "acct2"}
AccessTokens == {"token1", ""}
RefreshTokens == {"refresh1"}
ConnectionStatuses == {"error"}

\* Clerk ids of the people who can sign in; "u3" has never logged in.
ClerkIds == {"u1", "u2", "u3"}

\* The access token the Instagram callback obtains from the Graph API.
InstagramTokens == {"igtoken1"}

\* Date.now() when the callback runs and the timestamps a state parameter
\* can carry, in minutes.
CallbackTimes == {10, 11}
StateTimestamps == {0}

\* ------------------------------------------------------ program constants

\* organizations.credit_balance INTEGER NOT NULL DEFAULT 1000
InitialCredits == 1000

\* usageSummary: thirtyDaysAgo.setDate(thirtyDaysAgo.getDate() - 30)
PeriodDays == 30

\* Instagram callback: 10 * 60 * 1000 milliseconds, in minutes.
StateMaxAge == 10

\* ------------------------------------------------------------------ state

VARIABLES
    credit_balance,   \* [Orgs -> Int]: organizations.credit_balance
    credit_ledger,    \* sequence of credit_ledger rows, in insertion order
    pc,               \* [Procs -> position of the request handler]
    local,            \* [Procs -> the handler's input and local variables]
    result,           \* [Procs -> what the handler returned or threw]
    remaining,        \* number of requests still to be issued
    now,              \* the clock (NOW(), new Date()), in days
    users,            \* the users table: rows [clerk_id, org_id]
    creator_dna,      \* the creator_dna table: the org_id of each row
    platform_connections,   \* the platform_connections table: its rows
    recommendations   \* the recommendations table: rows in insertion order

vars == <<credit_balance, credit_ledger, pc, local, result, remaining, now,
          users, creator_dna, platform_connections, recommendations>>

\* The tables the credits router neither reads nor writes, but for the
\* users lookup of createContext.
others == <<users, creator_dna, platform_connections, recommendations>>

\* SQL NULL, JavaScript null and undefined.
Null == "NULL"

NoLocal == [op |-> "none"]
NoResult == [code |-> "NONE"]

\* --------------------------------------------------------------- helpers

RECURSIVE SumAmounts(_)
SumAmounts(rows) ==
    IF rows = <<>> THEN 0 ELSE Head(rows).amount + SumAmounts(Tail(rows))

\* The rows of one organization, oldest first (.eq('org_id', orgId)).
LedgerOf(o) == SelectSeq(credit_ledger, LAMBDA r : r.org_id = o)

Last(s) == s[Len(s)]

IsPrefix(s, t) == Len(s) <= Len(t) /\ SubSeq(t, 1, Len(s)) = s

\* ------------------------------------------------- the database statements

\* The row INSERT ... .select().single() stores and returns: id stands for
\* gen_random_uuid(), unique and never reused; rows are kept in the order
\* they were inserted; created_at defaults to NOW().
NewRow(ledger, org, amount, balanceAfter, type, description) ==
    [id |-> Len(ledger) + 1,
     org_id |-> org,
     amount |-> amount,
     balance_after |-> balanceAfter,
     transaction_type |-> type,
     description |-> description,
     created_at |-> now]

\* Faulty variant: an upsert that overwrites the newest row.
insert_credit_ledger_Overwrite(ledger, row) ==
    IF ledger = <<>> THEN <<row>> ELSE [ledger EXCEPT ![Len(ledger)] = row]

\* INSERT INTO credit_ledger: one more row, the others untouched.
insert_credit_ledger(ledger, row) == Append(ledger, row)

\* Faulty variant: the trigger adds the row's amount to the balance it
\* finds instead of storing the row's balance_after.
update_org_credit_balance_Delta(balances, new) ==
    [balances EXCEPT ![new.org_id] = @ + new.amount]

\* Faulty variant: the trigger's UPDATE has no WHERE clause.
update_org_credit_balance_NoWhere(balances, new) ==
    [o \in DOMAIN balances |-> new.balance_after]

\* Trigger function: UPDATE organizations SET credit_balance =
\* NEW.balance_after WHERE id = NEW.org_id.
update_org_credit_balance(balances, new) ==
    [balances EXCEPT ![new.org_id] = new.balance_after]

\* Faulty variant: the row is inserted and the trigger does not run.
InsertWithoutTrigger(row) ==
    /\ credit_ledger' = Append(credit_ledger, row)
    /\ credit_balance' = credit_balance

\* The INSERT statement with its AFTER INSERT ... FOR EACH ROW trigger: one
\* statement, hence one atomic step of the database.
InsertWithTrigger(row) ==
    /\ credit_ledger' = insert_credit_ledger(credit_ledger, row)
    /\ credit_balance' = update_org_credit_balance(credit_balance, row)

\* ------------------------------------------------------ handler arithmetic

\* Faulty variant: only an exhausted balance is refused.
InsufficientBalance_OnlyWhenEmpty(balance, amount) == balance <= 0

\* consume: if (org.credit_balance < input.amount) throw BAD_REQUEST
InsufficientBalance(balance, amount) == balance < amount

\* Faulty variant: the amount is added.
ConsumeNewBalance_Added(balance, amount) == balance + amount

\* consume: const newBalance = org.credit_balance - input.amount
ConsumeNewBalance(balance, amount) == balance - amount

\* Faulty variant: the amount is stored unsigned.
ConsumeAmount_Unsigned(amount) == amount

\* consume: amount: -input.amount
ConsumeAmount(amount) == 0 - amount

\* Faulty variant: the amount is subtracted.
GrantNewBalance_Subtracted(balance, amount) == balance - amount

\* grant: const newBalance = org.credit_balance + input.amount
GrantNewBalance(balance, amount) == balance + amount

\* grant: amount: input.amount
GrantAmount(amount) == amount

\* createContext, called for every request before its procedure: for an
\* authenticated caller, supabase.from('users').select('org_id') resolves
\* the caller's organization.  The statements a request has issued so far
\* are kept in its locals, in the order they were issued.
CreateContext == <<"select users">>

SelectOrganizations == Append(CreateContext, "select organizations")
SelectCreditLedger == Append(CreateContext, "select credit_ledger")

Ok(row, newBalance) ==
    [code |-> "OK", transaction |-> row, newBalance |-> newBalance]

Err(code, message) == [code |-> code, message |-> message]

\* What a handler keeps between its two round trips: its input, the
\* credit_balance its SELECT returned, and the number of ledger rows that
\* were committed when that SELECT ran.
Locals(op, org, amount, description) ==
    [op |-> op, orgId |-> org, amount |-> amount,
     description |-> description,
     statements |-> SelectOrganizations,
     credit_balance |-> credit_balance[org],
     snapshot |-> Len(credit_ledger)]

Idle(p) == pc[p] = "idle"
AllIdle == \A p \in Procs : Idle(p)

\* A caller with no request in flight issues its next one.
MayStart(p) == Idle(p) /\ remaining > 0

\* One request of the budget is used.
IssueRequest == remaining' = remaining - 1 /\ now' = now

\* A request to the credits router is issued.
Issue == IssueRequest /\ UNCHANGED others

\* The organizations createContext resolves for the authenticated callers
\* that have a users row: ctx.orgId of a request that reaches a handler.
CallerOrgs == {r.org_id : r \in users}

Finish(p, r) ==
    /\ pc' = [pc EXCEPT ![p] = "done"]
    /\ result' = [result EXCEPT ![p] = r]

\* The handler issues its INSERT INTO credit_ledger.
InsertIssued(p) ==
    /\ local' = [local EXCEPT
                    ![p].statements = Append(@, "insert credit_ledger")]
    /\ UNCHANGED others

\* ---------------------------------------------------------------- consume

\* SELECT credit_balance succeeds and the balance is too small: throw.
ConsumeInsufficient(p) ==
    /\ MayStart(p)
    /\ Issue
    /\ \E o \in CallerOrgs, a \in ConsumeAmounts, d \in ConsumeDescriptions :
           /\ InsufficientBalance(credit_balance[o], a)
           /\ local' = [local EXCEPT ![p] = Locals("consume", o, a, d)]
           /\ Finish(p, Err("BAD_REQUEST", "Insufficient credits"))
    /\ UNCHANGED <<credit_balance, credit_ledger>>

\* SELECT credit_balance succeeds and the balance suffices: go on to INSERT.
ConsumeRead(p) ==
    /\ MayStart(p)
    /\ Issue
    /\ \E o \in CallerOrgs, a \in ConsumeAmounts, d \in ConsumeDescriptions :
           /\ ~InsufficientBalance(credit_balance[o], a)
           /\ local' = [local EXCEPT ![p] = Locals("consume", o, a, d)]
           /\ pc' = [pc EXCEPT ![p] = "consume_insert"]
    /\ UNCHANGED <<credit_balance, credit_ledger, result>>

\* SELECT credit_balance fails (orgError || !org).
ConsumeReadError(p) ==
    /\ MayStart(p)
    /\ Issue
    /\ \E o \in CallerOrgs, a \in ConsumeAmounts, d \in ConsumeDescriptions :
           /\ local' = [local EXCEPT ![p] =
                           [op |-> "consume", orgId |-> o, amount |-> a,
                            description |-> d,
                            statements |-> SelectOrganizations]]
           /\ Finish(p, Err("INTERNAL_SERVER_ERROR", "Failed to fetch organization"))
    /\ UNCHANGED <<credit_balance, credit_ledger>>

\* INSERT INTO credit_ledger succeeds; the trigger sets the balance.
ConsumeInsert(p) ==
    /\ pc[p] = "consume_insert"
    /\ LET newBalance == ConsumeNewBalance(local[p].credit_balance,
                                           local[p].amount)
           row == NewRow(credit_ledger, local[p].orgId,
                         ConsumeAmount(local[p].amount), newBalance,
                         "consumption", local[p].description)
       IN  /\ InsertWithTrigger(row)
           /\ Finish(p, Ok(row, newBalance))
    /\ InsertIssued(p)
    /\ UNCHANGED <<remaining, now>>

\* Faulty variant: the handler also writes organizations.credit_balance
\* itself, so a failed INSERT leaves the balance debited.
ConsumeInsertError_WritesBalance(p) ==
    /\ pc[p] = "consume_insert"
    /\ credit_balance' =
           [credit_balance EXCEPT ![local[p].orgId] =
               ConsumeNewBalance(local[p].credit_balance, local[p].amount)]
    /\ Finish(p, Err("INTERNAL_SERVER_ERROR", "Failed to consume credits"))
    /\ InsertIssued(p)
    /\ UNCHANGED <<credit_ledger, remaining, now>>

\* INSERT INTO credit_ledger fails: the statement is rolled back.
ConsumeInsertError(p) ==
    /\ pc[p] = "consume_insert"
    /\ Finish(p, Err("INTERNAL_SERVER_ERROR", "Failed to consume credits"))
    /\ InsertIssued(p)
    /\ UNCHANGED <<credit_balance, credit_ledger, remaining, now>>

\* ------------------------------------------------------------------ grant

\* SELECT credit_balance succeeds: go on to INSERT (there is no check).
GrantRead(p) ==
    /\ MayStart(p)
    /\ Issue
    /\ \E o \in CallerOrgs, a \in GrantAmounts, d \in GrantDescriptions :
           /\ local' = [local EXCEPT ![p] = Locals("grant", o, a, d)]
           /\ pc' = [pc EXCEPT ![p] = "grant_insert"]
    /\ UNCHANGED <<credit_balance, credit_ledger, result>>

\* SELECT credit_balance fails (orgError || !org).
GrantReadError(p) ==
    /\ MayStart(p)
    /\ Issue
    /\ \E o \in CallerOrgs, a \in GrantAmounts, d \in GrantDescriptions :
           /\ local' = [local EXCEPT ![p] =
                           [op |-> "grant", orgId |-> o, amount |-> a,
                            description |-> d,
                            statements |-> SelectOrganizations]]
           /\ Finish(p, Err("INTERNAL_SERVER_ERROR", "Failed to fetch organization"))
    /\ UNCHANGED <<credit_balance, credit_ledger>>

\* INSERT INTO credit_ledger succeeds; the trigger sets the balance.
GrantInsert(p) ==
    /\ pc[p] = "grant_insert"
    /\ LET newBalance == GrantNewBalance(local[p].credit_balance,
                                         local[p].amount)
           row == NewRow(credit_ledger, local[p].orgId,
                         GrantAmount(local[p].amount), newBalance, "grant",
                         local[p].description)
       IN  /\ InsertWithTrigger(row)
           /\ Finish(p, Ok(row, newBalance))
    /\ InsertIssued(p)
    /\ UNCHANGED <<remaining, now>>

\* INSERT INTO credit_ledger fails: the statement is rolled back.
GrantInsertError(p) ==
    /\ pc[p] = "grant_insert"
    /\ Finish(p, Err("INTERNAL_SERVER_ERROR", "Failed to grant credits"))
    /\ InsertIssued(p)
    /\ UNCHANGED <<credit_balance, credit_ledger, remaining, now>>

\* --------------------------------------------------------- authorization

\* The procedures of the credits router, all built on orgProcedure.
OrgProcedures ==
    {"consume", "grant", "balance", "canAfford", "history", "usageSummary"}

\* Faulty variant: the middleware lets a request without organization
\* through, and the handler (here consume, in one step) runs for the
\* organization of some other user.
Forbidden_LetThrough(p) ==
    /\ MayStart(p)
    /\ Issue
    /\ \E u \in ClerkIds, o \in CallerOrgs, a \in ConsumeAmounts :
           LET newBalance == ConsumeNewBalance(credit_balance[o], a)
               row == NewRow(credit_ledger, o, ConsumeAmount(a), newBalance,
                             "consumption", "")
           IN  /\ \A r \in users : r.clerk_id # u
               /\ local' = [local EXCEPT ![p] =
                               [op |-> "consume", userId |-> u, orgId |-> Null,
                                statements |->
                                    Append(SelectOrganizations,
                                           "insert credit_ledger")]]
               /\ InsertWithTrigger(row)
               /\ Finish(p, Ok(row, newBalance))

\* enforceOrgMembership, no ctx.userId: auth() returned no user, and
\* createContext made no lookup.
Unauthorized(p) ==
    /\ MayStart(p)
    /\ Issue
    /\ \E op \in OrgProcedures :
           /\ local' = [local EXCEPT ![p] =
                           [op |-> op, userId |-> Null, orgId |-> Null,
                            statements |-> <<>>]]
           /\ Finish(p, Err("UNAUTHORIZED",
                            "You must be logged in to perform this action"))
    /\ UNCHANGED <<credit_balance, credit_ledger>>

\* enforceOrgMembership, ctx.userId and no ctx.orgId: the users lookup of
\* createContext found no row for the caller, or failed (its error is
\* not looked at, and user?.org_id ?? null is null either way).
Forbidden(p) ==
    /\ MayStart(p)
    /\ Issue
    /\ \E op \in OrgProcedures, u \in ClerkIds, error \in BOOLEAN :
           /\ ~error => \A r \in users : r.clerk_id # u
           /\ local' = [local EXCEPT ![p] =
                           [op |-> op, userId |-> u, orgId |-> Null,
                            statements |-> CreateContext]]
           /\ Finish(p, Err("FORBIDDEN",
                  "You must be a member of an organization to perform this action"))
    /\ UNCHANGED <<credit_balance, credit_ledger>>

\* ------------------------------------------------------- input validation

\* The ZodError of z.number().positive(), thrown by tRPC as BAD_REQUEST.
ValidationError == Err("BAD_REQUEST", "Number must be greater than 0")

\* Faulty variant: the input schema does not require a positive amount,
\* and the handler runs (here in one step) on the amount it was given.
ConsumeInvalid_Applied(p) ==
    /\ MayStart(p)
    /\ Issue
    /\ \E o \in CallerOrgs, a \in InvalidAmounts :
           LET newBalance == ConsumeNewBalance(credit_balance[o], a)
               row == NewRow(credit_ledger, o, ConsumeAmount(a), newBalance,
                             "consumption", "")
           IN  /\ local' = [local EXCEPT ![p] =
                               [op |-> "consume", orgId |-> o, amount |-> a,
                                statements |->
                                    Append(SelectOrganizations,
                                           "insert credit_ledger")]]
               /\ InsertWithTrigger(row)
               /\ Finish(p, Ok(row, newBalance))

\* consume with an amount that is not positive: the input parser throws
\* before the handler is called, after createContext has run.
ConsumeInvalid(p) ==
    /\ MayStart(p)
    /\ Issue
    /\ \E o \in CallerOrgs, a \in InvalidAmounts :
           /\ local' = [local EXCEPT ![p] =
                           [op |-> "consume", orgId |-> o, amount |-> a,
                            statements |-> CreateContext]]
           /\ Finish(p, ValidationError)
    /\ UNCHANGED <<credit_balance, credit_ledger>>

\* grant with an amount that is not positive: likewise.
GrantInvalid(p) ==
    /\ MayStart(p)
    /\ Issue
    /\ \E o \in CallerOrgs, a \in InvalidAmounts :
           /\ local' = [local EXCEPT ![p] =
                           [op |-> "grant", orgId |-> o, amount |-> a,
                            statements |-> CreateContext]]
           /\ Finish(p, ValidationError)
    /\ UNCHANGED <<credit_balance, credit_ledger>>

\* ---------------------------------------------------------------- queries

\* organizations.plan_tier VARCHAR(50) NOT NULL DEFAULT 'free'; the
\* application never updates it.
plan_tier(o) == "free"

Reverse(s) == [i \in 1..Len(s) |-> s[Len(s) + 1 - i]]

Min(a, b) == IF a < b THEN a ELSE b
Max(a, b) == IF a > b THEN a ELSE b

\* Faulty variant: the query is not filtered by organization.
HistoryMatching_AllOrgs(o, type) ==
    SelectSeq(Reverse(credit_ledger),
              LAMBDA r : type = "any" \/ r.transaction_type = type)

\* history's query before .range(): the organization's rows, newest first,
\* of the given type when there is one.
HistoryMatching(o, type) ==
    SelectSeq(Reverse(LedgerOf(o)),
              LAMBDA r : type = "any" \/ r.transaction_type = type)

\* .range(offset, offset + limit - 1): rows offset .. offset + limit - 1,
\* counted from 0, of those the table has.
Range(rows, offset, limit) ==
    SubSeq(rows, offset + 1, Min(offset + limit, Len(rows)))

\* Faulty variant: a page that ends on the last row reports more rows.
HasMore_AtLeast(count, offset, limit) == count >= offset + limit

\* history: hasMore: (count || 0) > input.offset + input.limit
HasMore(count, offset, limit) == count > offset + limit

\* Faulty variant: a balance equal to the amount is not enough.
CanAffordResult_Strict(balance, amount) ==
    [code |-> "OK",
     canAfford |-> balance > amount,
     currentBalance |-> balance,
     required |-> amount,
     shortfall |-> Max(0, amount - balance)]

\* canAfford: the returned object.
CanAffordResult(balance, amount) ==
    [code |-> "OK",
     canAfford |-> balance >= amount,
     currentBalance |-> balance,
     required |-> amount,
     shortfall |-> Max(0, amount - balance)]

\* balance: SELECT credit_balance, plan_tier.
Balance(p) ==
    /\ MayStart(p)
    /\ Issue
    /\ \E o \in CallerOrgs :
           /\ local' = [local EXCEPT ![p] =
                           [op |-> "balance", orgId |-> o,
                            statements |-> SelectOrganizations]]
           /\ Finish(p, [code |-> "OK", balance |-> credit_balance[o],
                         plan_tier |-> plan_tier(o)])
    /\ UNCHANGED <<credit_balance, credit_ledger>>

\* Why .single() returns an error: no organizations row has the id
\* (PostgREST code PGRST116), or the query itself failed.
SelectErrors == {"PGRST116", "query failed"}

\* balance: the SELECT returns an error, whichever it is.
BalanceError(p) ==
    /\ MayStart(p)
    /\ Issue
    /\ \E o \in CallerOrgs, e \in SelectErrors :
           /\ local' = [local EXCEPT ![p] =
                           [op |-> "balance", orgId |-> o, error |-> e,
                            statements |-> SelectOrganizations]]
           /\ Finish(p, Err("INTERNAL_SERVER_ERROR", "Failed to fetch credit balance"))
    /\ UNCHANGED <<credit_balance, credit_ledger>>

\* canAfford: SELECT credit_balance.
CanAfford(p) ==
    /\ MayStart(p)
    /\ Issue
    /\ \E o \in CallerOrgs, a \in ConsumeAmounts :
           /\ local' = [local EXCEPT ![p] =
                           [op |-> "canAfford", orgId |-> o, amount |-> a,
                            statements |-> SelectOrganizations]]
           /\ Finish(p, CanAffordResult(credit_balance[o], a))
    /\ UNCHANGED <<credit_balance, credit_ledger>>

CanAffordError(p) ==
    /\ MayStart(p)
    /\ Issue
    /\ \E o \in CallerOrgs, a \in ConsumeAmounts :
           /\ local' = [local EXCEPT ![p] =
                           [op |-> "canAfford", orgId |-> o, amount |-> a,
                            statements |-> SelectOrganizations]]
           /\ Finish(p, Err("INTERNAL_SERVER_ERROR", "Failed to check balance"))
    /\ UNCHANGED <<credit_balance, credit_ledger>>

\* history: SELECT * FROM credit_ledger ..., with the exact count.
History(p) ==
    /\ MayStart(p)
    /\ Issue
    /\ \E o \in CallerOrgs, limit \in HistoryLimits, offset \in HistoryOffsets,
          type \in HistoryTypes :
           /\ local' = [local EXCEPT ![p] =
                           [op |-> "history", orgId |-> o, limit |-> limit,
                            offset |-> offset, type |-> type,
                            statements |-> SelectCreditLedger]]
           /\ LET matching == HistoryMatching(o, type)
                  count == Len(matching)
              IN  Finish(p, [code |-> "OK",
                             items |-> Range(matching, offset, limit),
                             total |-> count,
                             hasMore |-> HasMore(count, offset, limit)])
    /\ UNCHANGED <<credit_balance, credit_ledger>>

HistoryError(p) ==
    /\ MayStart(p)
    /\ Issue
    /\ \E o \in CallerOrgs, limit \in HistoryLimits, offset \in HistoryOffsets,
          type \in HistoryTypes :
           /\ local' = [local EXCEPT ![p] =
                           [op |-> "history", orgId |-> o, limit |-> limit,
                            offset |-> offset, type |-> type,
                            statements |-> SelectCreditLedger]]
           /\ Finish(p, Err("INTERNAL_SERVER_ERROR",
                            "Failed to fetch transaction history"))
    /\ UNCHANGED <<credit_balance, credit_ledger>>

\* usageSummary: .gte('created_at', thirtyDaysAgo.toISOString())
InPeriod(o) ==
    SelectSeq(Reverse(LedgerOf(o)),
              LAMBDA r : r.created_at >= now - PeriodDays)

Abs(n) == IF n < 0 THEN 0 - n ELSE n

\* usageSummary: const desc = tx.description || 'Other'
DescriptionLabel(description) ==
    IF description = "" THEN "Other" ELSE description

\* usageSummary: consumed += Math.abs(tx.amount), over the rows with
\* tx.amount < 0.
RECURSIVE SumConsumed(_)
SumConsumed(rows) ==
    IF rows = <<>> THEN 0
    ELSE (IF Head(rows).amount < 0 THEN Abs(Head(rows).amount) ELSE 0)
         + SumConsumed(Tail(rows))

\* usageSummary: granted += tx.amount, over the other rows.
RECURSIVE SumGranted(_)
SumGranted(rows) ==
    IF rows = <<>> THEN 0
    ELSE (IF Head(rows).amount < 0 THEN 0 ELSE Head(rows).amount)
         + SumGranted(Tail(rows))

\* Function-valued properties every JavaScript object literal inherits from
\* Object.prototype: byDescription[desc] finds them in the empty object {}.
ObjectPrototypeKeys ==
    {"constructor", "hasOwnProperty", "isPrototypeOf", "propertyIsEnumerable",
     "toLocaleString", "toString", "valueOf"}

\* JavaScript values stored in byDescription: a number, or the string that
\* + produces when its left operand is not a number (the text of the
\* inherited function followed by the digits of the amounts added to it).
JsNumber(n) == [typeof |-> "number", value |-> n]
JsString(parts) == [typeof |-> "string", value |-> parts]

RECURSIVE AbsAmounts(_)
AbsAmounts(rows) ==
    IF rows = <<>> THEN <<>>
    ELSE <<Abs(Head(rows).amount)>> \o AbsAmounts(Tail(rows))

\* usageSummary: byDescription[desc] = (byDescription[desc] || 0) +
\* Math.abs(tx.amount), over the rows with tx.amount < 0, starting from
\* const byDescription = {}.  For a label that {} does not inherit, the
\* first lookup is undefined and the value is the sum; for an inherited
\* one the first lookup is a function, which is truthy, and every + is a
\* string concatenation.
ByDescription(rows) ==
    LET debits == SelectSeq(rows, LAMBDA r : r.amount < 0)
        labels == {DescriptionLabel(debits[i].description) :
                       i \in 1..Len(debits)}
        of(l) == SelectSeq(debits,
                     LAMBDA r : DescriptionLabel(r.description) = l)
    IN  [l \in labels |->
            IF l \in ObjectPrototypeKeys
            THEN JsString(<<l>> \o AbsAmounts(of(l)))
            ELSE JsNumber(SumConsumed(of(l)))]

\* usageSummary: the returned object, from the rows the query returned.
UsageSummaryResult(rows) ==
    [code |-> "OK",
     periodDays |-> PeriodDays,
     consumed |-> SumConsumed(rows),
     granted |-> SumGranted(rows),
     net |-> SumGranted(rows) - SumConsumed(rows),
     byDescription |-> ByDescription(rows),
     transactionCount |-> Len(rows)]

\* usageSummary: SELECT ... FROM credit_ledger of the last 30 days.
UsageSummary(p) ==
    /\ MayStart(p)
    /\ Issue
    /\ \E o \in CallerOrgs :
           /\ local' = [local EXCEPT ![p] = [op |-> "usageSummary", orgId |-> o,
                            statements |-> SelectCreditLedger]]
           /\ Finish(p, UsageSummaryResult(InPeriod(o)))
    /\ UNCHANGED <<credit_balance, credit_ledger>>

\* usageSummary: the query fails; its error is not looked at and data is
\* null (data?.forEach, data?.length || 0).
UsageSummaryError(p) ==
    /\ MayStart(p)
    /\ Issue
    /\ \E o \in CallerOrgs :
           /\ local' = [local EXCEPT ![p] = [op |-> "usageSummary", orgId |-> o,
                            statements |-> SelectCreditLedger]]
           /\ Finish(p, UsageSummaryResult(<<>>))
    /\ UNCHANGED <<credit_balance, credit_ledger>>

\* ---------------------------------------------------- platform connections

\* conn.access_token ? '***' : null
Truthy(token) == token # Null /\ token # ""

\* Faulty variant: the stored token is passed through.
Mask_Exposed(token) == token

\* list, get: access_token: conn.access_token ? '***' : null
Mask(token) == IF Truthy(token) THEN "***" ELSE Null

\* list, get: { ...conn, access_token: ..., refresh_token: ... }
Masked(conn) ==
    [conn EXCEPT !.access_token = Mask(@), !.refresh_token = Mask(@)]

\* storeTokens, updateStatus: { ...data, access_token: '***',
\* refresh_token: '***' }
Starred(conn) ==
    [conn EXCEPT !.access_token = "***", !.refresh_token = "***"]

\* The positions of the rows of an organization and platform
\* (.eq('org_id', orgId).eq('platform', input.platform)).
ConnectionsAt(o, platform) ==
    {i \in 1..Len(platform_connections) :
        /\ platform_connections[i].org_id = o
        /\ platform_connections[i].platform = platform}

\* The position of the row UNIQUE(org_id, platform, account_id) allows.
ConnectionAt(o, platform, account) ==
    {i \in ConnectionsAt(o, platform) :
        platform_connections[i].account_id = account}

ConnectionsOf(o) ==
    SelectSeq(platform_connections, LAMBDA c : c.org_id = o)

RECURSIVE MapMasked(_)
MapMasked(conns) ==
    IF conns = <<>> THEN <<>>
    ELSE <<Masked(Head(conns))>> \o MapMasked(Tail(conns))

\* What the platform connection router does not touch.
ConnFrame ==
    UNCHANGED <<credit_balance, credit_ledger, users, creator_dna,
                recommendations>>

\* list: the organization's rows, newest first, tokens masked; or the
\* query fails.
ConnList(p) ==
    /\ MayStart(p)
    /\ IssueRequest
    /\ \E o \in CallerOrgs, failed \in BOOLEAN :
           /\ local' = [local EXCEPT ![p] = [op |-> "list", orgId |-> o]]
           /\ Finish(p, IF failed
                        THEN Err("INTERNAL_SERVER_ERROR",
                                 "Failed to fetch platform connections")
                        ELSE [code |-> "OK",
                              items |-> MapMasked(Reverse(ConnectionsOf(o)))])
    /\ UNCHANGED platform_connections
    /\ ConnFrame

\* get: .single() returns the row when the organization has exactly one
\* row for the platform, and the error PGRST116 (data null) when it has
\* none or several; any other error is thrown.
ConnGet(p) ==
    /\ MayStart(p)
    /\ IssueRequest
    /\ \E o \in CallerOrgs, platform \in Platforms, failed \in BOOLEAN :
           /\ local' = [local EXCEPT ![p] =
                           [op |-> "get", orgId |-> o, platform |-> platform]]
           /\ Finish(p,
                  IF failed
                  THEN Err("INTERNAL_SERVER_ERROR",
                           "Failed to fetch platform connection")
                  ELSE IF Cardinality(ConnectionsAt(o, platform)) = 1
                  THEN [code |-> "OK",
                        data |-> Masked(platform_connections[
                                   CHOOSE i \in ConnectionsAt(o, platform) :
                                       TRUE])]
                  ELSE [code |-> "OK", null |-> TRUE])
    /\ UNCHANGED platform_connections
    /\ ConnFrame

\* storeTokens: the row of the account is updated when there is one and
\* inserted otherwise; an omitted refresh_token leaves the column of an
\* updated row as it was.  Or the write fails.
StoreTokens(p) ==
    /\ MayStart(p)
    /\ IssueRequest
    /\ \E o \in CallerOrgs, platform \in Platforms, account \in Accounts,
          access \in AccessTokens, refresh \in RefreshTokens \cup {Null},
          failed \in BOOLEAN :
           LET existing == ConnectionAt(o, platform, account)
               i == CHOOSE x \in existing : TRUE
               updated == [platform_connections[i] EXCEPT
                              !.access_token = access,
                              !.refresh_token =
                                  IF refresh = Null THEN @ ELSE refresh,
                              !.status = "connected"]
               inserted == [id |-> Len(platform_connections) + 1,
                            org_id |-> o,
                            platform |-> platform,
                            account_id |-> account,
                            access_token |-> access,
                            refresh_token |-> refresh,
                            status |-> "connected"]
           IN  /\ local' = [local EXCEPT ![p] =
                               [op |-> "storeTokens", orgId |-> o,
                                platform |-> platform, account_id |-> account,
                                access_token |-> access,
                                refresh_token |-> refresh]]
               /\ IF failed
                  THEN /\ Finish(p, Err("INTERNAL_SERVER_ERROR",
                                IF existing # {}
                                THEN "Failed to update platform connection"
                                ELSE "Failed to create platform connection"))
                       /\ UNCHANGED platform_connections
                  ELSE IF existing # {}
                  THEN /\ platform_connections' =
                              [platform_connections EXCEPT ![i] = updated]
                       /\ Finish(p, [code |-> "OK", data |-> Starred(updated)])
                  ELSE /\ platform_connections' =
                              Append(platform_connections, inserted)
                       /\ Finish(p, [code |-> "OK", data |-> Starred(inserted)])
    /\ ConnFrame

\* disconnect: every row of the organization and platform loses its tokens.
Disconnect(p) ==
    /\ MayStart(p)
    /\ IssueRequest
    /\ \E o \in CallerOrgs, platform \in Platforms, failed \in BOOLEAN :
           /\ local' = [local EXCEPT ![p] =
                           [op |-> "disconnect", orgId |-> o,
                            platform |-> platform]]
           /\ IF failed
              THEN /\ Finish(p, Err("INTERNAL_SERVER_ERROR",
                                    "Failed to disconnect platform"))
                   /\ UNCHANGED platform_connections
              ELSE /\ platform_connections' =
                          [i \in 1..Len(platform_connections) |->
                              IF i \in ConnectionsAt(o, platform)
                              THEN [platform_connections[i] EXCEPT
                                       !.status = "disconnected",
                                       !.access_token = Null,
                                       !.refresh_token = Null]
                              ELSE platform_connections[i]]
                   /\ Finish(p, [code |-> "OK", success |-> TRUE])
    /\ ConnFrame

\* updateStatus: UPDATE ... .select().single() sets the status of every
\* row of the organization and platform and returns the row when there is
\* exactly one; with none or several, or when the statement fails, the
\* handler throws (several rows have then been updated all the same).
UpdateStatus(p) ==
    /\ MayStart(p)
    /\ IssueRequest
    /\ \E o \in CallerOrgs, platform \in Platforms,
          status \in ConnectionStatuses, failed \in BOOLEAN :
           LET hit == ConnectionsAt(o, platform)
               after == [i \in 1..Len(platform_connections) |->
                            IF i \in hit
                            THEN [platform_connections[i] EXCEPT
                                     !.status = status]
                            ELSE platform_connections[i]]
           IN  /\ local' = [local EXCEPT ![p] =
                               [op |-> "updateStatus", orgId |-> o,
                                platform |-> platform, status |-> status]]
               /\ platform_connections' =
                      IF failed THEN platform_connections ELSE after
               /\ Finish(p,
                      IF ~failed /\ Cardinality(hit) = 1
                      THEN [code |-> "OK",
                            data |-> Starred(after[CHOOSE i \in hit : TRUE])]
                      ELSE Err("INTERNAL_SERVER_ERROR",
                               "Failed to update connection status"))
    /\ ConnFrame

\* summary: .select('platform, status, last_sync_at, account_name')
SummaryColumns(conn) == [platform |-> conn.platform, status |-> conn.status]

RECURSIVE MapSummary(_)
MapSummary(conns) ==
    IF conns = <<>> THEN <<>>
    ELSE <<SummaryColumns(Head(conns))>> \o MapSummary(Tail(conns))

ConnSummary(p) ==
    /\ MayStart(p)
    /\ IssueRequest
    /\ \E o \in CallerOrgs, failed \in BOOLEAN :
           LET data == MapSummary(ConnectionsOf(o)) IN
           /\ local' = [local EXCEPT ![p] = [op |-> "summary", orgId |-> o]]
           /\ Finish(p,
                  IF failed
                  THEN Err("INTERNAL_SERVER_ERROR",
                           "Failed to fetch connection summary")
                  ELSE [code |-> "OK",
                        total |-> Len(data),
                        connected |->
                            Len(SelectSeq(data,
                                LAMBDA c : c.status = "connected")),
                        platforms |-> data])
    /\ UNCHANGED platform_connections
    /\ ConnFrame

\* ------------------------------------------------------ Instagram callback

\* What the state query parameter can decode to.  Nothing signs it, so the
\* caller chooses it: text that is not base64url JSON, or an object with a
\* userId and with or without a timestamp (the initiate route sends
\* {userId, timestamp: Date.now(), nonce}).
OAuthStates ==
    {[kind |-> "undecodable"]}
    \cup {[kind |-> "object", userId |-> u] : u \in {"u1", "u2"}}
    \cup {[kind |-> "object", userId |-> u, timestamp |-> t] :
              u \in {"u1", "u2"}, t \in StateTimestamps}

\* The try block of the state verification does not throw: JSON.parse
\* succeeds, Date.now() - stateData.timestamp > 10 * 60 * 1000 is false
\* (it is false as well when timestamp is undefined, the difference being
\* NaN), and stateData.userId === userId.
StateValid(state, userId, at) ==
    /\ state.kind = "object"
    /\ "timestamp" \in DOMAIN state => ~(at - state.timestamp > StateMaxAge)
    /\ state.userId = userId

\* What the callback does not touch.
CallbackFrame ==
    UNCHANGED <<credit_balance, credit_ledger, users, creator_dna,
                recommendations>>

Redirect(to) == [code |-> "REDIRECT", to |-> to]

\* The error query parameter is set, or code or state is missing.
CallbackRefused(p) ==
    /\ MayStart(p)
    /\ IssueRequest
    /\ \E why \in {"oauth error", "Missing authorization code"} :
           /\ local' = [local EXCEPT ![p] =
                           [op |-> "instagramCallback", refused |-> why]]
           /\ Finish(p, Redirect("/connections?error"))
    /\ UNCHANGED platform_connections
    /\ CallbackFrame

\* auth() returns no userId.
CallbackSignedOut(p) ==
    /\ MayStart(p)
    /\ IssueRequest
    /\ \E state \in OAuthStates :
           /\ local' = [local EXCEPT ![p] =
                           [op |-> "instagramCallback", userId |-> Null,
                            state |-> state]]
           /\ Finish(p, Redirect("/sign-in"))
    /\ UNCHANGED platform_connections
    /\ CallbackFrame

\* The state verification throws.
CallbackInvalidState(p) ==
    /\ MayStart(p)
    /\ IssueRequest
    /\ \E userId \in ClerkIds, state \in OAuthStates, at \in CallbackTimes :
           /\ ~StateValid(state, userId, at)
           /\ local' = [local EXCEPT ![p] =
                           [op |-> "instagramCallback", userId |-> userId,
                            state |-> state, at |-> at]]
           /\ Finish(p, Redirect("/connections?error"))
    /\ UNCHANGED platform_connections
    /\ CallbackFrame

\* The state is accepted and a later step fails: a token exchange, the
\* search for an Instagram account, the lookup of the users row, or the
\* upsert.
CallbackFailed(p) ==
    /\ MayStart(p)
    /\ IssueRequest
    /\ \E userId \in ClerkIds, state \in OAuthStates, at \in CallbackTimes :
           /\ StateValid(state, userId, at)
           /\ local' = [local EXCEPT ![p] =
                           [op |-> "instagramCallback", userId |-> userId,
                            state |-> state, at |-> at]]
           /\ Finish(p, Redirect("/connections?error"))
    /\ UNCHANGED platform_connections
    /\ CallbackFrame

\* The state is accepted and every later step succeeds: upsert on
\* (org_id, platform, account_id) of the caller's organization.
CallbackStored(p) ==
    /\ MayStart(p)
    /\ IssueRequest
    /\ \E userId \in ClerkIds, state \in OAuthStates, at \in CallbackTimes,
          account \in Accounts, token \in InstagramTokens :
           /\ StateValid(state, userId, at)
           /\ \E u \in users :
                  /\ u.clerk_id = userId
                  /\ LET existing == ConnectionAt(u.org_id, "instagram", account)
                         i == CHOOSE x \in existing : TRUE
                     IN  platform_connections' =
                             IF existing # {}
                             THEN [platform_connections EXCEPT
                                      ![i].access_token = token,
                                      ![i].status = "connected"]
                             ELSE Append(platform_connections,
                                      [id |-> Len(platform_connections) + 1,
                                       org_id |-> u.org_id,
                                       platform |-> "instagram",
                                       account_id |-> account,
                                       access_token |-> token,
                                       refresh_token |-> Null,
                                       status |-> "connected"])
           /\ local' = [local EXCEPT ![p] =
                           [op |-> "instagramCallback", userId |-> userId,
                            state |-> state, at |-> at]]
           /\ Finish(p, Redirect("/connections?success"))
    /\ CallbackFrame

\* ---------------------------------------------------------------- user.me

\* organizations.id of the rows to come: gen_random_uuid() gives each
\* inserted organization an id no other row has.
NewOrgIds == <<"org1", "org2", "org3", "org4">>

\* The rows of the organizations table, by id.
Organizations == DOMAIN credit_balance

\* The id of the next inserted organization.
gen_random_uuid == NewOrgIds[Cardinality(Organizations \ Orgs) + 1]

\* supabase.from('users').select(...).eq('clerk_id', userId)
UsersOf(userId) == {r \in users : r.clerk_id = userId}

\* Faulty variant: the organization is inserted without credits.
insert_organizations_Empty(org) ==
    credit_balance' = [o \in Organizations \cup {org} |->
                          IF o = org THEN 0 ELSE credit_balance[o]]

\* INSERT INTO organizations (name, credit_balance, plan_tier) VALUES
\* ('My Workspace', 1000, 'free').
insert_organizations(org) ==
    credit_balance' = [o \in Organizations \cup {org} |->
                          IF o = org THEN InitialCredits
                          ELSE credit_balance[o]]

\* What user.me does not touch.
MeFrame == UNCHANGED <<credit_ledger, platform_connections, recommendations>>

\* enforceAuth of protectedProcedure: no ctx.userId.
MeUnauthorized(p) ==
    /\ MayStart(p)
    /\ IssueRequest
    /\ local' = [local EXCEPT ![p] = [op |-> "me", userId |-> Null]]
    /\ Finish(p, Err("UNAUTHORIZED",
                     "You must be logged in to perform this action"))
    /\ UNCHANGED <<credit_balance, users, creator_dna>>
    /\ MeFrame

\* The SELECT returns the caller's users row, which is returned.
MeFound(p) ==
    /\ MayStart(p)
    /\ IssueRequest
    /\ \E userId \in ClerkIds :
           /\ UsersOf(userId) # {}
           /\ local' = [local EXCEPT ![p] = [op |-> "me", userId |-> userId]]
           /\ Finish(p, [code |-> "OK",
                         user |-> CHOOSE r \in UsersOf(userId) : TRUE])
    /\ UNCHANGED <<credit_balance, users, creator_dna>>
    /\ MeFrame

\* error?.code === 'PGRST116' || !user: the SELECT returns no row, or
\* fails for any other reason (data is null then as well).  The INSERT
\* INTO organizations fails.
MeOrgInsertError(p) ==
    /\ MayStart(p)
    /\ IssueRequest
    /\ \E userId \in ClerkIds, e \in SelectErrors :
           /\ e = "PGRST116" => UsersOf(userId) = {}
           /\ local' = [local EXCEPT ![p] =
                           [op |-> "me", userId |-> userId, error |-> e]]
           /\ Finish(p, Err("INTERNAL_SERVER_ERROR",
                            "Failed to create organization"))
    /\ UNCHANGED <<credit_balance, users, creator_dna>>
    /\ MeFrame

\* The organization is inserted and the INSERT INTO users fails: always
\* when a row with the caller's clerk_id exists (clerk_id is UNIQUE), and
\* possibly otherwise.  The organization stays.
MeUserInsertError(p) ==
    /\ MayStart(p)
    /\ IssueRequest
    /\ Cardinality(Organizations \ Orgs) < Len(NewOrgIds)
    /\ \E userId \in ClerkIds, e \in SelectErrors :
           /\ e = "PGRST116" => UsersOf(userId) = {}
           /\ local' = [local EXCEPT ![p] =
                           [op |-> "me", userId |-> userId, error |-> e]]
           /\ Finish(p, Err("INTERNAL_SERVER_ERROR", "Failed to create user"))
    /\ insert_organizations(gen_random_uuid)
    /\ UNCHANGED <<users, creator_dna>>
    /\ MeFrame

\* The organization and the users row are inserted; the result of the
\* INSERT INTO creator_dna is not looked at.
MeCreated(p) ==
    /\ MayStart(p)
    /\ IssueRequest
    /\ Cardinality(Organizations \ Orgs) < Len(NewOrgIds)
    /\ \E userId \in ClerkIds, e \in SelectErrors, dna \in BOOLEAN :
           LET newUser == [clerk_id |-> userId, org_id |-> gen_random_uuid]
           IN  /\ UsersOf(userId) = {}
               /\ local' = [local EXCEPT ![p] =
                               [op |-> "me", userId |-> userId, error |-> e]]
               /\ users' = users \cup {newUser}
               /\ creator_dna' = IF dna
                                 THEN creator_dna \cup {gen_random_uuid}
                                 ELSE creator_dna
               /\ Finish(p, [code |-> "OK", user |-> newUser])
    /\ insert_organizations(gen_random_uuid)
    /\ MeFrame

\* ------------------------------------------------------- recommendations

\* new Date().toISOString()
toISOString(t) == "T" \o ToString(t)

\* JSON null in a JSONB column.
JsonNull == [null |-> TRUE]

\* input.id: the ids of the rows there can be, and one no row has.
RecIds == 1..(MaxRecRequests + 1)

\* input.modifications of acceptWithModifications, input.reason of reject
\* and input.content_id of markPublished.
Modifications == {[hook_angle |-> "question"], [platform |-> "youtube"]}
RejectReasons == {"", "off brand"}
ContentIds == {"content1"}

\* Faulty variant: the status is not part of the WHERE clause.
PendingMatching_AnyStatus(id, o) ==
    {i \in 1..Len(recommendations) :
        /\ recommendations[i].id = id
        /\ recommendations[i].org_id = o}

\* Faulty variant: the organization is not part of the WHERE clause.
PendingMatching_AnyOrg(id, o) ==
    {i \in 1..Len(recommendations) :
        /\ recommendations[i].id = id
        /\ recommendations[i].status = "pending"}

\* .eq('id', input.id).eq('org_id', orgId).eq('status', 'pending')
PendingMatching(id, o) ==
    {i \in 1..Len(recommendations) :
        /\ recommendations[i].id = id
        /\ recommendations[i].org_id = o
        /\ recommendations[i].status = "pending"}

\* .eq('id', input.id).eq('org_id', orgId)
Matching(id, o) ==
    {i \in 1..Len(recommendations) :
        /\ recommendations[i].id = id
        /\ recommendations[i].org_id = o}

\* What the recommendation router does not touch.
RecFrame ==
    UNCHANGED <<credit_balance, credit_ledger, users, creator_dna,
                platform_connections>>

\* UPDATE recommendations SET ... WHERE ... with .select().single(): the
\* one matching row becomes row (the BEFORE UPDATE trigger sets its
\* updated_at) and is returned.
UpdateOne(p, op, o, id, i, row) ==
    /\ local' = [local EXCEPT ![p] = [op |-> op, orgId |-> o, id |-> id]]
    /\ recommendations' = [recommendations EXCEPT ![i] = row]
    /\ Finish(p, [code |-> "OK", data |-> row])

\* The same statement returns an error: no row matches (PGRST116, nothing
\* is updated) or the statement fails.
UpdateNone(p, op, o, id, matching, message) ==
    /\ \E e \in SelectErrors :
           /\ e = "PGRST116" => matching = {}
           /\ local' = [local EXCEPT ![p] =
                           [op |-> op, orgId |-> o, id |-> id, error |-> e]]
    /\ Finish(p, Err("INTERNAL_SERVER_ERROR", message))
    /\ UNCHANGED recommendations

accept(p) ==
    /\ MayStart(p)
    /\ IssueRequest
    /\ \E o \in CallerOrgs, id \in RecIds :
           /\ PendingMatching(id, o) # {}
           /\ LET i == CHOOSE x \in PendingMatching(id, o) : TRUE
              IN  UpdateOne(p, "accept", o, id, i,
                      [recommendations[i] EXCEPT
                          !.status = "accepted",
                          !.accepted_at = toISOString(now),
                          !.updated_at = toISOString(now)])
    /\ RecFrame

acceptError(p) ==
    /\ MayStart(p)
    /\ IssueRequest
    /\ \E o \in CallerOrgs, id \in RecIds :
           UpdateNone(p, "accept", o, id, PendingMatching(id, o),
                      "Failed to accept recommendation")
    /\ RecFrame

\* ...(input.modifications.platform && { platform: ... }) and the same for
\* hook_angle: a field is overwritten when the modification has a truthy
\* value for it.
Modified(row, m) ==
    [row EXCEPT
        !.status = "modified",
        !.accepted_at = toISOString(now),
        !.modified_at = toISOString(now),
        !.user_modifications = m,
        !.platform = IF "platform" \in DOMAIN m /\ Truthy(m.platform)
                     THEN m.platform ELSE @,
        !.hook_angle = IF "hook_angle" \in DOMAIN m /\ Truthy(m.hook_angle)
                       THEN m.hook_angle ELSE @,
        !.updated_at = toISOString(now)]

acceptWithModifications(p) ==
    /\ MayStart(p)
    /\ IssueRequest
    /\ \E o \in CallerOrgs, id \in RecIds, m \in Modifications :
           /\ PendingMatching(id, o) # {}
           /\ LET i == CHOOSE x \in PendingMatching(id, o) : TRUE
              IN  UpdateOne(p, "acceptWithModifications", o, id, i,
                            Modified(recommendations[i], m))
    /\ RecFrame

acceptWithModificationsError(p) ==
    /\ MayStart(p)
    /\ IssueRequest
    /\ \E o \in CallerOrgs, id \in RecIds :
           UpdateNone(p, "acceptWithModifications", o, id,
                      PendingMatching(id, o),
                      "Failed to modify recommendation")
    /\ RecFrame

\* user_modifications: input.reason ? { rejection_reason: input.reason }
\* : null
Rejection(reason) ==
    IF Truthy(reason) THEN [rejection_reason |-> reason] ELSE JsonNull

reject(p) ==
    /\ MayStart(p)
    /\ IssueRequest
    /\ \E o \in CallerOrgs, id \in RecIds, reason \in RejectReasons :
           /\ PendingMatching(id, o) # {}
           /\ LET i == CHOOSE x \in PendingMatching(id, o) : TRUE
              IN  UpdateOne(p, "reject", o, id, i,
                      [recommendations[i] EXCEPT
                          !.status = "rejected",
                          !.user_modifications = Rejection(reason),
                          !.updated_at = toISOString(now)])
    /\ RecFrame

rejectError(p) ==
    /\ MayStart(p)
    /\ IssueRequest
    /\ \E o \in CallerOrgs, id \in RecIds :
           UpdateNone(p, "reject", o, id, PendingMatching(id, o),
                      "Failed to reject recommendation")
    /\ RecFrame

\* markPublished: the WHERE clause has no status.
markPublished(p) ==
    /\ MayStart(p)
    /\ IssueRequest
    /\ \E o \in CallerOrgs, id \in RecIds, content \in ContentIds :
           /\ Matching(id, o) # {}
           /\ LET i == CHOOSE x \in Matching(id, o) : TRUE
              IN  UpdateOne(p, "markPublished", o, id, i,
                      [recommendations[i] EXCEPT
                          !.status = "published",
                          !.outcome_content_id = content,
                          !.updated_at = toISOString(now)])
    /\ RecFrame

markPublishedError(p) ==
    /\ MayStart(p)
    /\ IssueRequest
    /\ \E o \in CallerOrgs, id \in RecIds :
           UpdateNone(p, "markPublished", o, id, Matching(id, o),
                      "Failed to mark as published")
    /\ RecFrame

\* create: INSERT INTO recommendations (org_id, ...input, status) with
\* status 'pending'; the other lifecycle columns take their defaults.
create(p) ==
    /\ MayStart(p)
    /\ IssueRequest
    /\ \E o \in CallerOrgs, platform \in Platforms :
           LET row == [id |-> Len(recommendations) + 1,
                       org_id |-> o,
                       platform |-> platform,
                       hook_angle |-> Null,
                       status |-> "pending",
                       accepted_at |-> Null,
                       modified_at |-> Null,
                       user_modifications |-> JsonNull,
                       outcome_content_id |-> Null,
                       updated_at |-> toISOString(now)]
           IN  /\ local' = [local EXCEPT ![p] =
                               [op |-> "create", orgId |-> o]]
               /\ recommendations' = Append(recommendations, row)
               /\ Finish(p, [code |-> "OK", data |-> row])
    /\ RecFrame

createError(p) ==
    /\ MayStart(p)
    /\ IssueRequest
    /\ \E o \in CallerOrgs :
           /\ local' = [local EXCEPT ![p] = [op |-> "create", orgId |-> o]]
           /\ Finish(p, Err("INTERNAL_SERVER_ERROR",
                            "Failed to create recommendation"))
    /\ UNCHANGED recommendations
    /\ RecFrame

\* ----------------------------------------------------------------- return

\* The response has been sent; the caller may issue its next request.
Return(p) ==
    /\ pc[p] = "done"
    /\ pc' = [pc EXCEPT ![p] = "idle"]
    /\ local' = [local EXCEPT ![p] = NoLocal]
    /\ result' = [result EXCEPT ![p] = NoResult]
    /\ UNCHANGED <<credit_balance, credit_ledger, remaining, now>>
    /\ UNCHANGED others

\* ------------------------------------------------------------------ clock

\* Time passes between two statements.
Tick ==
    /\ now < MaxNow
    /\ \E d \in TickSteps : now' = now + d
    /\ UNCHANGED <<credit_balance, credit_ledger, pc, local, result, remaining>>
    /\ UNCHANGED others

\* ---------------------------------------------------------- specifications

\* The users who have logged in before: one owner for each organization.
InitialUsers ==
    {[clerk_id |-> "u1", org_id |-> "orgA"],
     [clerk_id |-> "u2", org_id |-> "orgB"]}

\* The database with two organizations whose owners have logged in, their
\* balances as the migration's default and seed set them; n requests are
\* to come.
InitWith(n) ==
    /\ credit_balance = [o \in Orgs |-> InitialCredits]
    /\ credit_ledger = <<>>
    /\ pc = [p \in Procs |-> "idle"]
    /\ local = [p \in Procs |-> NoLocal]
    /\ result = [p \in Procs |-> NoResult]
    /\ remaining = n
    /\ now = 0
    /\ users = InitialUsers
    /\ creator_dna = Orgs
    /\ platform_connections = <<>>
    /\ recommendations = <<>>

Init == InitWith(MaxRequests)

\* A request begins with its SELECT, on inputs of the caller's choice.
Begin(p) ==
    \/ Unauthorized(p)
    \/ Forbidden(p)
    \/ ConsumeInsufficient(p)
    \/ ConsumeRead(p)
    \/ ConsumeReadError(p)
    \/ GrantRead(p)
    \/ GrantReadError(p)
    \/ ConsumeInvalid(p)
    \/ GrantInvalid(p)
    \/ Balance(p)
    \/ BalanceError(p)
    \/ CanAfford(p)
    \/ CanAffordError(p)
    \/ History(p)
    \/ HistoryError(p)
    \/ UsageSummary(p)
    \/ UsageSummaryError(p)

\* A request that has begun goes on, whatever the other requests do.
Continue(p) ==
    \/ ConsumeInsert(p)
    \/ ConsumeInsertError(p)
    \/ GrantInsert(p)
    \/ GrantInsertError(p)
    \/ Return(p)

\* Requests of different callers interleave between their round trips.
Next == \E p \in Procs : Begin(p) \/ Continue(p)

Spec == Init /\ [][Next]_vars

\* Requests applied one after another: one caller, who issues a request
\* only after the previous one has returned.
SerialProcs == {"p1"}

SerialInit == InitWith(MaxSerialRequests)

NextSerial == \E p \in SerialProcs : Begin(p) \/ Continue(p)

SerialSpec == SerialInit /\ [][NextSerial]_vars

\* Requests applied one after another over a period of weeks: Spec and
\* SerialSpec are the behaviours in which all requests fall on one day.
ClockInit == InitWith(MaxClockRequests)

NextClock ==
    \/ \E p \in SerialProcs : Begin(p) \/ Continue(p)
    \/ Tick

ClockSpec == ClockInit /\ [][NextClock]_vars

\* The platform connection router and the Instagram callback, requests
\* applied one after another.
ConnInit == InitWith(MaxConnRequests)

ConnBegin(p) ==
    \/ ConnList(p)
    \/ ConnGet(p)
    \/ StoreTokens(p)
    \/ Disconnect(p)
    \/ UpdateStatus(p)
    \/ ConnSummary(p)
    \/ CallbackRefused(p)
    \/ CallbackSignedOut(p)
    \/ CallbackInvalidState(p)
    \/ CallbackFailed(p)
    \/ CallbackStored(p)

NextConn == \E p \in SerialProcs : ConnBegin(p) \/ Return(p)

ConnSpec == ConnInit /\ [][NextConn]_vars

\* The mutations of the recommendation router, requests applied one after
\* another.
RecInit == InitWith(MaxRecRequests)

RecBegin(p) ==
    \/ create(p)
    \/ createError(p)
    \/ accept(p)
    \/ acceptError(p)
    \/ acceptWithModifications(p)
    \/ acceptWithModificationsError(p)
    \/ reject(p)
    \/ rejectError(p)
    \/ markPublished(p)
    \/ markPublishedError(p)

NextRec == \E p \in SerialProcs : RecBegin(p) \/ Return(p)

RecSpec == RecInit /\ [][NextRec]_vars

\* user.me and the consume and grant of the credits router, requests
\* applied one after another; of the three users, one has no users row
\* yet.
MeInit == InitWith(MaxMeRequests)

MeBegin(p) ==
    \/ MeUnauthorized(p)
    \/ MeFound(p)
    \/ MeOrgInsertError(p)
    \/ MeUserInsertError(p)
    \/ MeCreated(p)
    \/ ConsumeInsufficient(p)
    \/ ConsumeRead(p)
    \/ ConsumeReadError(p)
    \/ GrantRead(p)
    \/ GrantReadError(p)

NextMe == \E p \in SerialProcs : MeBegin(p) \/ Continue(p)

MeSpec == MeInit /\ [][NextMe]_vars

\* ------------------------------------------------------------ vocabulary

\* The handler's SELECT of credit_balance returned a row.
ReadOk(l) == "credit_balance" \in DOMAIN l

\* No request is between its SELECT and its INSERT.
Quiescent == \A p \in Procs : pc[p] \in {"idle", "done"}

InsufficientCredits == Err("BAD_REQUEST", "Insufficient credits")

\* Caller p begins a request of kind op in this step.
Begins(p, op) == pc[p] = "idle" /\ pc'[p] # "idle" /\ local'[p].op = op

\* This step appends exactly the row e and sets its organization's balance.
AppendsAndSets(e) ==
    /\ credit_ledger' = Append(credit_ledger, e)
    /\ credit_balance' = [credit_balance EXCEPT ![e.org_id] = e.balance_after]

\* ------------------------------------------------------------------- C1

\* C1 as stated: after a serialized sequence of Grant and Consume calls on
\* an organization, credit_balance equals the balance_after of the last
\* ledger entry and equals the sum of the amounts of all its entries.
C1_BalanceIsLastAndLedgerSum ==
    \A o \in Orgs :
        LedgerOf(o) # <<>> =>
            /\ credit_balance[o] = Last(LedgerOf(o)).balance_after
            /\ credit_balance[o] = SumAmounts(LedgerOf(o))

\* C1 amended: after a serialized sequence of Grant and Consume calls on an
\* organization, credit_balance equals the balance_after of the last ledger
\* entry and equals the initial balance of 1000 plus the sum of the amounts
\* of all its entries.
C1_BalanceIsLastAndInitialPlusLedgerSum ==
    \A o \in Orgs :
        /\ LedgerOf(o) # <<>> =>
               credit_balance[o] = Last(LedgerOf(o)).balance_after
        /\ credit_balance[o] = InitialCredits + SumAmounts(LedgerOf(o))

\* A grant and a consumption have been applied to one organization.
C1_Witness ==
    \E o \in Orgs :
        /\ AllIdle
        /\ Len(LedgerOf(o)) >= 2
        /\ \E i, j \in 1..Len(LedgerOf(o)) :
               /\ LedgerOf(o)[i].transaction_type = "grant"
               /\ LedgerOf(o)[j].transaction_type = "consumption"

\* ------------------------------------------------------------------- C2

\* Two consume requests on one organization have both finished, both read
\* the same balance from the same ledger (neither had written when the
\* other read), each amount fits that balance and their sum does not.
RacingConsumes(p, q) ==
    /\ p # q
    /\ pc[p] = "done" /\ pc[q] = "done"
    /\ local[p].op = "consume" /\ local[q].op = "consume"
    /\ ReadOk(local[p]) /\ ReadOk(local[q])
    /\ local[p].orgId = local[q].orgId
    /\ local[p].snapshot = local[q].snapshot
    /\ local[p].amount <= local[p].credit_balance
    /\ local[q].amount <= local[q].credit_balance
    /\ local[p].amount + local[q].amount > local[p].credit_balance
    /\ result[p].code # "INTERNAL_SERVER_ERROR"
    /\ result[q].code # "INTERNAL_SERVER_ERROR"

\* C2: of two concurrent Consume calls whose amounts each fit the balance
\* but together exceed it, exactly one succeeds and the other fails with
\* InsufficientCredits (no overdraft).
C2_ExactlyOneConsumeSucceeds ==
    \A p, q \in Procs :
        RacingConsumes(p, q) =>
            \/ result[p].code = "OK" /\ result[q] = InsufficientCredits
            \/ result[q].code = "OK" /\ result[p] = InsufficientCredits

\* ------------------------------------------------------------------- C3

\* C3: for any interleaving of Grant and Consume calls, once no call is in
\* flight the balance is the starting balance plus the signed amounts of
\* the calls that succeeded (each of which appended one row carrying its
\* signed amount): no update is lost.
C3_NoLostUpdate ==
    Quiescent =>
        \A o \in Orgs :
            credit_balance[o] = InitialCredits + SumAmounts(LedgerOf(o))

\* ------------------------------------------------------------------- C4

\* C4: in every reachable state the entries of an organization, in creation
\* order, form a running sum: balance_after[n] = balance_after[n-1] +
\* amount[n].
C4_RunningSum ==
    \A o \in Orgs :
        \A n \in 2..Len(LedgerOf(o)) :
            LedgerOf(o)[n].balance_after =
                LedgerOf(o)[n - 1].balance_after + LedgerOf(o)[n].amount

\* ------------------------------------------------------------------- C5

\* C5: in every reachable state, interleaved calls included, an
\* organization with at least one ledger entry has credit_balance equal to
\* the balance_after of its most recently appended entry.
C5_BalanceIsLastBalanceAfter ==
    \A o \in Orgs :
        LedgerOf(o) # <<>> =>
            credit_balance[o] = Last(LedgerOf(o)).balance_after

\* Two interleaved calls have both written: the last entry was computed
\* from a balance read before the entry before it was appended.
C5_Witness ==
    \E o \in Orgs :
        /\ Len(LedgerOf(o)) >= 2
        /\ Last(LedgerOf(o)).balance_after - Last(LedgerOf(o)).amount
               # LedgerOf(o)[Len(LedgerOf(o)) - 1].balance_after

\* ------------------------------------------------------------------- C6

\* C6: a Consume whose amount is greater than the balance it finds fails
\* with InsufficientCredits in that same step, appends no ledger entry and
\* leaves credit_balance unchanged.
C6_InsufficientConsumeChangesNothing ==
    [][\A p \in Procs :
          (/\ Begins(p, "consume")
           /\ ReadOk(local'[p])
           /\ local'[p].amount > credit_balance[local'[p].orgId])
          => /\ pc'[p] = "done"
             /\ result'[p] = InsufficientCredits
             /\ UNCHANGED <<credit_balance, credit_ledger>>]_vars

\* A Consume of more than the balance has been answered.
C6_Witness ==
    \E p \in Procs :
        /\ pc[p] = "done"
        /\ local[p].op = "consume"
        /\ ReadOk(local[p])
        /\ local[p].amount > credit_balance[local[p].orgId]
        /\ result[p] = InsufficientCredits

\* ------------------------------------------------------------------- C7

\* C7: a Consume reads the current balance b; when it succeeds, b >= amount
\* and one step appends exactly one entry with amount = -amount,
\* balance_after = b - amount and kind consumption, sets credit_balance to
\* b - amount, and returns that balance with the created entry.
C7_SuccessfulConsume ==
    [][\A p \in Procs :
          /\ (Begins(p, "consume") /\ ReadOk(local'[p]))
             => local'[p].credit_balance = credit_balance[local'[p].orgId]
          /\ (/\ pc[p] = "consume_insert"
              /\ pc'[p] = "done"
              /\ result'[p].code = "OK")
             => LET b == local[p].credit_balance
                    a == local[p].amount
                    e == result'[p].transaction
                IN  /\ b >= a
                    /\ e.org_id = local[p].orgId
                    /\ e.amount = 0 - a
                    /\ e.balance_after = b - a
                    /\ e.transaction_type = "consumption"
                    /\ AppendsAndSets(e)
                    /\ credit_balance'[local[p].orgId] = b - a
                    /\ result'[p].newBalance = b - a]_vars

\* A Consume has succeeded.
C7_Witness ==
    \E p \in Procs :
        /\ pc[p] = "done"
        /\ local[p].op = "consume"
        /\ result[p].code = "OK"
        /\ result[p].transaction = Last(credit_ledger)

\* ------------------------------------------------------------------- C8

\* C8 as stated: a Grant with amount > 0 always succeeds.
C8_GrantAlwaysSucceeds ==
    \A p \in Procs :
        (pc[p] = "done" /\ local[p].op = "grant" /\ ReadOk(local[p]))
            => result[p].code = "OK"

\* C8 amended: a Grant with amount > 0 that reads balance b is never
\* rejected for its amount or the balance; unless its ledger insert fails
\* (INTERNAL_SERVER_ERROR, nothing changed) one step appends exactly one
\* entry with amount = +amount, balance_after = b + amount and kind grant,
\* sets credit_balance to b + amount, and returns that balance with the
\* created entry.
C8_GrantSucceedsUnlessInsertFails ==
    [][\A p \in Procs :
          /\ (Begins(p, "grant") /\ ReadOk(local'[p]))
             => /\ pc'[p] = "grant_insert"
                /\ local'[p].credit_balance = credit_balance[local'[p].orgId]
          /\ (pc[p] = "grant_insert" /\ pc'[p] # "grant_insert")
             => LET b == local[p].credit_balance
                    a == local[p].amount
                IN  /\ pc'[p] = "done"
                    /\ \/ /\ result'[p].code = "INTERNAL_SERVER_ERROR"
                          /\ UNCHANGED <<credit_balance, credit_ledger>>
                       \/ /\ result'[p].code = "OK"
                          /\ result'[p].transaction.org_id = local[p].orgId
                          /\ result'[p].transaction.amount = a
                          /\ result'[p].transaction.balance_after = b + a
                          /\ result'[p].transaction.transaction_type = "grant"
                          /\ AppendsAndSets(result'[p].transaction)
                          /\ credit_balance'[local[p].orgId] = b + a
                          /\ result'[p].newBalance = b + a]_vars

\* A Grant has succeeded.
C8_Witness ==
    \E p \in Procs :
        /\ pc[p] = "done"
        /\ local[p].op = "grant"
        /\ result[p].code = "OK"
        /\ result[p].transaction = Last(credit_ledger)

\* ------------------------------------------------------------------- C9

\* C9: no partial write.  Every step either leaves the ledger and every
\* balance as they were, or appends exactly one entry and sets that
\* entry's organization's credit_balance to its balance_after (and no other
\* balance); a request that ends in a failure changes neither.
C9_NoPartialWrite ==
    [][/\ \/ UNCHANGED <<credit_balance, credit_ledger>>
          \/ /\ Len(credit_ledger') = Len(credit_ledger) + 1
             /\ AppendsAndSets(Last(credit_ledger'))
       /\ \A p \in Procs :
             (pc[p] # "done" /\ pc'[p] = "done" /\ result'[p].code # "OK")
                 => UNCHANGED <<credit_balance, credit_ledger>>]_vars

\* The ledger insert of a request has failed after another one succeeded.
C9_Witness ==
    \E p \in Procs :
        /\ pc[p] = "done"
        /\ result[p].code = "INTERNAL_SERVER_ERROR"
        /\ local[p].op \in {"consume", "grant"}
        /\ ReadOk(local[p])
        /\ credit_ledger # <<>>

\* ------------------------------------------------------------------ C10

\* C10: the ledger is append-only.  No step of any credits operation
\* changes or removes an existing entry: the ledger before a step is a
\* prefix of the ledger after it, so no organization's number of entries
\* ever decreases.
C10_AppendOnly ==
    [][IsPrefix(credit_ledger, credit_ledger')]_vars

\* A query has run on a ledger that holds an entry, and returned it.
C10_Witness ==
    \E p \in Procs :
        /\ pc[p] = "done"
        /\ local[p].op = "history"
        /\ result[p].code = "OK"
        /\ Len(result[p].items) >= 1

\* ------------------------------------------------------------------ C11

\* The rows of one organization after this step.
LedgerOfNext(o) == SelectSeq(credit_ledger', LAMBDA r : r.org_id = o)

\* Caller p's consume or grant completes its INSERT round trip in this step.
Writes(p) == pc[p] \in {"consume_insert", "grant_insert"} /\ pc'[p] = "done"

\* C11: operations on different organizations are independent.  A Consume
\* or Grant on organization A leaves the credit_balance and the ledger
\* entries of every other organization B unchanged, so an organization's
\* balance and entries change only in a step of a call on that
\* organization; and whether a Consume on A is refused depends on A's
\* balance and the amount alone, whatever is in flight on B.
C11_OrgsIndependent ==
    [][/\ \A p \in Procs :
             Writes(p) =>
                 \A b \in Orgs \ {local[p].orgId} :
                     /\ credit_balance'[b] = credit_balance[b]
                     /\ LedgerOfNext(b) = LedgerOf(b)
       /\ \A b \in Orgs :
             (credit_balance'[b] # credit_balance[b]
              \/ LedgerOfNext(b) # LedgerOf(b))
                 => \E q \in Procs : Writes(q) /\ local[q].orgId = b
       /\ \A p \in Procs :
             (Begins(p, "consume") /\ ReadOk(local'[p]))
                 => (result'[p] = InsufficientCredits
                        <=> credit_balance[local'[p].orgId] < local'[p].amount)
      ]_vars

\* Two calls on different organizations have interleaved (the second read
\* before the first wrote) and both have written.
C11_Witness ==
    \E p, q \in Procs :
        /\ pc[p] = "done" /\ pc[q] = "done"
        /\ result[p].code = "OK" /\ result[q].code = "OK"
        /\ local[p].op \in {"consume", "grant"}
        /\ local[q].op \in {"consume", "grant"}
        /\ local[p].orgId # local[q].orgId
        /\ local[q].snapshot < result[p].transaction.id
        /\ result[p].transaction.id < result[q].transaction.id
        /\ credit_balance[local[p].orgId] = result[p].newBalance
        /\ credit_balance[local[q].orgId] = result[q].newBalance

\* ------------------------------------------------------------------ C12

\* C12: credit_balance is written only through a ledger append.  Every
\* step in which the credit_balance of an organization changes appends, in
\* that same step, one ledger entry for that organization, and the new
\* balance is that entry's balance_after; no other step of any operation
\* writes credit_balance.
C12_BalanceWrittenOnlyByAppend ==
    [][\A o \in Orgs :
          credit_balance'[o] # credit_balance[o]
              => /\ Len(credit_ledger') = Len(credit_ledger) + 1
                 /\ SubSeq(credit_ledger', 1, Len(credit_ledger))
                        = credit_ledger
                 /\ Last(credit_ledger').org_id = o
                 /\ Last(credit_ledger').balance_after = credit_balance'[o]
      ]_vars

\* The balance of an organization has been changed, and later requests
\* (a query, a refused consume, a failed insert) have ended without a write.
C12_Witness ==
    \E o \in Orgs :
        /\ credit_balance[o] # InitialCredits
        /\ Last(LedgerOf(o)).balance_after = credit_balance[o]
        /\ \E p \in Procs :
               /\ pc[p] = "done"
               /\ local[p].orgId = o
               /\ result[p].code # "OK" \/ local[p].op \notin {"consume", "grant"}

\* ------------------------------------------------------------------ C13

\* The balance of organization o before its newest entry was appended.
BalanceBeforeLast(o) ==
    IF Len(LedgerOf(o)) = 1
    THEN InitialCredits
    ELSE LedgerOf(o)[Len(LedgerOf(o)) - 1].balance_after

\* C13: in a serialized sequence of calls, a Grant of amount a on an
\* organization immediately followed by a Consume of the same amount a on
\* it (no other entry of the organization in between) returns
\* credit_balance to the value it had before the Grant, and the amounts of
\* the two entries sum to zero.
C13_GrantThenConsumeRestores ==
    [][\A p \in Procs :
          (/\ Writes(p)
           /\ local[p].op = "consume"
           /\ result'[p].code = "OK"
           /\ LedgerOf(local[p].orgId) # <<>>
           /\ Last(LedgerOf(local[p].orgId)).transaction_type = "grant"
           /\ Last(LedgerOf(local[p].orgId)).amount = local[p].amount)
          => /\ credit_balance'[local[p].orgId]
                    = BalanceBeforeLast(local[p].orgId)
             /\ Last(credit_ledger').amount
                    + Last(LedgerOf(local[p].orgId)).amount = 0
      ]_vars

\* After an earlier consumption, a Grant of 500 and then a Consume of 500
\* have been applied to one organization.
C13_Witness ==
    \E o \in Orgs, p \in Procs :
        /\ Len(LedgerOf(o)) = 3
        /\ LedgerOf(o)[2].transaction_type = "grant"
        /\ LedgerOf(o)[3].transaction_type = "consumption"
        /\ LedgerOf(o)[2].amount = 500
        /\ LedgerOf(o)[3].amount = 0 - 500
        /\ pc[p] = "done"
        /\ result[p].code = "OK"
        /\ result[p].transaction = LedgerOf(o)[3]
        /\ credit_balance[o] = LedgerOf(o)[1].balance_after

\* ------------------------------------------------------------------ C14

\* The signed amounts of the entries of organization o, oldest first.
AmountsOf(o) == [i \in 1..Len(LedgerOf(o)) |-> LedgerOf(o)[i].amount]

\* C14: starting from balance 1000 with no entries, Consume(30) succeeds
\* with balance 970 and an entry {amount -30, balance_after 970}; a
\* following Grant(500) gives balance 1470; a following Consume(2000)
\* fails with InsufficientCredits, the balance remains 1470 and no third
\* entry is appended.
C14_Scenario ==
    [][\A p \in Procs :
          LET o == local'[p].orgId IN
          /\ (/\ Writes(p)
               /\ local[p].op = "consume" /\ local[p].amount = 30
               /\ result'[p].code = "OK"
               /\ AmountsOf(o) = <<>>)
              => /\ result'[p].newBalance = 970
                 /\ credit_balance'[o] = 970
                 /\ Len(LedgerOfNext(o)) = 1
                 /\ LedgerOfNext(o)[1].amount = 0 - 30
                 /\ LedgerOfNext(o)[1].balance_after = 970
          /\ (/\ Writes(p)
               /\ local[p].op = "grant" /\ local[p].amount = 500
               /\ result'[p].code = "OK"
               /\ AmountsOf(o) = <<0 - 30>>)
              => /\ result'[p].newBalance = 1470
                 /\ credit_balance'[o] = 1470
                 /\ Len(LedgerOfNext(o)) = 2
                 /\ LedgerOfNext(o)[2].balance_after = 1470
          /\ (/\ Begins(p, "consume")
               /\ ReadOk(local'[p]) /\ local'[p].amount = 2000
               /\ AmountsOf(o) = <<0 - 30, 500>>)
              => /\ pc'[p] = "done"
                 /\ result'[p] = InsufficientCredits
                 /\ credit_balance[o] = 1470
                 /\ credit_balance'[o] = 1470
                 /\ Len(LedgerOfNext(o)) = 2
      ]_vars

\* The three calls of the scenario have been made on one organization and
\* the third has been refused.
C14_Witness ==
    \E o \in Orgs, p \in Procs :
        /\ AmountsOf(o) = <<0 - 30, 500>>
        /\ pc[p] = "done"
        /\ local[p].op = "consume"
        /\ local[p].orgId = o
        /\ local[p].amount = 2000
        /\ result[p] = InsufficientCredits
        /\ credit_balance[o] = 1470

\* ------------------------------------------------------------------ C15

\* Caller p's request is a consume or grant with a non-positive amount.
NonPositive(l) ==
    /\ l.op \in {"consume", "grant"}
    /\ "amount" \in DOMAIN l
    /\ l.amount <= 0

\* C15 as stated: a Consume or Grant call with a non-positive amount is
\* rejected as a validation error before any persistence call (read or
\* write) is made, and leaves the ledger and every balance unchanged.
C15_RejectedBeforeAnyPersistenceCall ==
    \A p \in Procs :
        (pc[p] = "done" /\ NonPositive(local[p]))
            => /\ result[p] = ValidationError
               /\ local[p].statements = <<>>

\* C15 amended: a Consume or Grant call with a non-positive amount is
\* rejected as a validation error in the step that begins it, before any
\* read or write of organizations or credit_ledger: the only persistence
\* call the request makes is the request context's lookup of the caller's
\* users row.  It leaves the ledger and every balance unchanged.
C15_RejectedBeforeLedgerAccess ==
    [][\A p \in Procs :
          (pc[p] = "idle" /\ pc'[p] # "idle" /\ NonPositive(local'[p]))
              => /\ pc'[p] = "done"
                 /\ result'[p] = ValidationError
                 /\ local'[p].statements = <<"select users">>
                 /\ UNCHANGED <<credit_balance, credit_ledger>>
      ]_vars

\* A consume of 0 or less has been answered by an organization whose
\* ledger holds an entry.
C15_Witness ==
    \E p \in Procs :
        /\ pc[p] = "done"
        /\ NonPositive(local[p])
        /\ local[p].op = "consume"
        /\ result[p] = ValidationError
        /\ LedgerOf(local[p].orgId) # <<>>

\* ------------------------------------------------------------------ C16

\* C16: GetBalance returns the organization's current cached
\* credit_balance and plan tier, changes no state (no ledger entry, no
\* balance change), and fails with NotFound when the organization does not
\* exist (its SELECT finds no organizations row).
C16_GetBalance ==
    [][\A p \in Procs :
          (Begins(p, "balance") /\ local'[p].orgId # Null)
              => /\ UNCHANGED <<credit_balance, credit_ledger>>
                 /\ pc'[p] = "done"
                 /\ IF "error" \notin DOMAIN local'[p]
                    THEN /\ result'[p].code = "OK"
                         /\ result'[p].balance
                                = credit_balance[local'[p].orgId]
                         /\ result'[p].plan_tier = "free"
                    ELSE local'[p].error = "PGRST116"
                             => result'[p].code = "NOT_FOUND"
      ]_vars

\* ------------------------------------------------------------------ C17

\* The entries of organization o of the given kind (any kind when there is
\* none), oldest first.
EntriesOfKind(o, kind) ==
    SelectSeq(credit_ledger,
              LAMBDA r : /\ r.org_id = o
                         /\ kind = "any" \/ r.transaction_type = kind)

\* C17: History with limit N and offset K returns at most N entries,
\* newest first, which are exactly the entries at positions K .. K+N-1 of
\* the organization's (optionally kind-filtered) entries ordered newest
\* first; hasMore is true exactly when the number of matching entries is
\* greater than K + N.
C17_HistoryPage ==
    [][\A p \in Procs :
          (Begins(p, "history") /\ result'[p].code = "OK")
              => LET l == local'[p]
                     matching == EntriesOfKind(l.orgId, l.type)
                     n == Len(matching)
                     items == result'[p].items
                 IN  /\ Len(items) <= l.limit
                     /\ Len(items) = Max(0, Min(l.limit, n - l.offset))
                     /\ \A i \in 1..Len(items) :
                            items[i] = matching[n - (l.offset + i - 1)]
                     /\ \A i, j \in 1..Len(items) :
                            i < j => items[i].id > items[j].id
                     /\ result'[p].hasMore <=> n > l.offset + l.limit
      ]_vars

\* A page of one entry has been returned from a ledger that holds more.
C17_Witness ==
    \E p \in Procs :
        /\ pc[p] = "done"
        /\ local[p].op = "history"
        /\ result[p].code = "OK"
        /\ local[p].limit = 1
        /\ Len(result[p].items) = 1
        /\ result[p].hasMore
        /\ result[p].items[1] = Last(LedgerOf(local[p].orgId))

\* A page past the newest entry has been returned.
C17_WitnessOffset ==
    \E p \in Procs :
        /\ pc[p] = "done"
        /\ local[p].op = "history"
        /\ result[p].code = "OK"
        /\ local[p].offset = 1
        /\ Len(result[p].items) = 1
        /\ result[p].items[1] = LedgerOf(local[p].orgId)[1]
        /\ ~result[p].hasMore

\* ------------------------------------------------------------------ C18

\* C18: every entry History returns belongs to the calling organization;
\* when a kind is given every returned entry has that kind and total
\* counts only the organization's entries of that kind (all of its entries
\* when no kind is given); History changes no state.
C18_HistoryScope ==
    [][\A p \in Procs :
          Begins(p, "history")
              => /\ UNCHANGED <<credit_balance, credit_ledger>>
                 /\ result'[p].code = "OK"
                    => LET l == local'[p]
                           items == result'[p].items
                       IN  /\ \A i \in 1..Len(items) :
                                  /\ items[i].org_id = l.orgId
                                  /\ \E k \in 1..Len(credit_ledger) :
                                         credit_ledger[k] = items[i]
                                  /\ l.type # "any"
                                         => items[i].transaction_type = l.type
                           /\ result'[p].total =
                                  Cardinality(
                                      {k \in 1..Len(credit_ledger) :
                                          /\ credit_ledger[k].org_id = l.orgId
                                          /\ l.type # "any" =>
                                                 credit_ledger[k].transaction_type
                                                     = l.type})
      ]_vars

\* A History of one kind has been answered from a ledger that also holds
\* entries of another kind or of another organization.
C18_Witness ==
    \E p \in Procs :
        /\ pc[p] = "done"
        /\ local[p].op = "history"
        /\ result[p].code = "OK"
        /\ local[p].type # "any"
        /\ Len(result[p].items) >= 1
        /\ result[p].total < Len(credit_ledger)

\* ------------------------------------------------------------------ C19

\* The entries of organization o created within the trailing window.
InWindow(o) ==
    SelectSeq(credit_ledger,
              LAMBDA r : r.org_id = o /\ r.created_at >= now - PeriodDays)

\* The sum of the values of a per-description breakdown.
RECURSIVE SumValues(_, _)
SumValues(breakdown, labels) ==
    IF labels = {} THEN 0
    ELSE LET l == CHOOSE x \in labels : TRUE
         IN  breakdown[l].value + SumValues(breakdown, labels \ {l})

\* C19: UsageSummary aggregates exactly the organization's entries created
\* within the trailing window: consumed is the sum of the absolute values
\* of the debit amounts, granted is the sum of the credit amounts, net =
\* granted - consumed equals the sum of the signed amounts in the window,
\* the per-description breakdown values (numbers) sum to consumed, and
\* nothing is persisted.
C19_UsageSummary ==
    [][\A p \in Procs :
          (Begins(p, "usageSummary") /\ local'[p].orgId # Null)
              => LET window == InWindow(local'[p].orgId)
                     debits == SelectSeq(window, LAMBDA r : r.amount < 0)
                     credits == SelectSeq(window, LAMBDA r : r.amount >= 0)
                     r == result'[p]
                 IN  /\ UNCHANGED <<credit_balance, credit_ledger>>
                     /\ r.code = "OK"
                     /\ r.transactionCount = Len(window)
                     /\ r.consumed = 0 - SumAmounts(debits)
                     /\ r.granted = SumAmounts(credits)
                     /\ r.net = r.granted - r.consumed
                     /\ r.net = SumAmounts(window)
                     /\ \A l \in DOMAIN r.byDescription :
                            r.byDescription[l].typeof = "number"
                     /\ SumValues(r.byDescription, DOMAIN r.byDescription)
                            = r.consumed
      ]_vars

\* ------------------------------------------------------------------ C20

\* C20: a Consume that fails for lack of credits reports the current
\* balance, the required amount and the shortfall, where shortfall =
\* max(0, required - balance); the same three values are what the
\* affordability check reports for that state.
C20_InsufficientCreditsDetails ==
    [][\A p \in Procs :
          (/\ Begins(p, "consume")
           /\ ReadOk(local'[p])
           /\ pc'[p] = "done"
           /\ result'[p].code # "OK")
          => LET b == credit_balance[local'[p].orgId]
                 a == local'[p].amount
                 r == result'[p]
             IN  /\ {"currentBalance", "required", "shortfall"}
                        \subseteq DOMAIN r
                 /\ r.currentBalance = b
                 /\ r.required = a
                 /\ r.shortfall = Max(0, a - b)
                 /\ r.currentBalance = CanAffordResult(b, a).currentBalance
                 /\ r.required = CanAffordResult(b, a).required
                 /\ r.shortfall = CanAffordResult(b, a).shortfall
      ]_vars

\* ------------------------------------------------------------------ C21

\* How many times statement x occurs in the statements a request issued.
Count(statements, x) ==
    Cardinality({i \in 1..Len(statements) : statements[i] = x})

\* C21: when the write of a Consume or Grant cannot be committed, the
\* read-check-write sequence is retried a bounded number of times and only
\* then surfaced as a failure: a call that ends in a failure of its write
\* has read and tried to write more than once.
C21_RetriedBeforeSurfaced ==
    \A p \in Procs :
        (/\ pc[p] = "done"
         /\ local[p].op \in {"consume", "grant"}
         /\ result[p].code = "INTERNAL_SERVER_ERROR"
         /\ Count(local[p].statements, "insert credit_ledger") >= 1)
        => /\ Count(local[p].statements, "insert credit_ledger") > 1
           /\ Count(local[p].statements, "select organizations") > 1

\* ------------------------------------------------------------------ C22

\* The connection objects in the response caller p has received.
ReturnedConnections(p) ==
    IF result[p].code # "OK" THEN {}
    ELSE IF local[p].op = "list"
    THEN {result[p].items[i] : i \in 1..Len(result[p].items)}
    ELSE IF local[p].op = "summary"
    THEN {result[p].platforms[i] : i \in 1..Len(result[p].platforms)}
    ELSE IF local[p].op \in {"get", "storeTokens", "updateStatus"}
            /\ "data" \in DOMAIN result[p]
    THEN {result[p].data}
    ELSE {}

\* C22: no procedure of the platform connection router (list, get,
\* storeTokens, updateStatus, summary) ever returns a stored access_token
\* or refresh_token value: in every response each token field is either
\* the mask '***' or null.
C22_TokensMasked ==
    \A p \in Procs :
        pc[p] = "done" =>
            \A c \in ReturnedConnections(p) :
                \A f \in {"access_token", "refresh_token"} \cap DOMAIN c :
                    c[f] \in {"***", Null}

\* list has answered with a connection whose stored access token is a
\* secret and whose refresh token is null.
C22_Witness ==
    \E p \in Procs :
        /\ pc[p] = "done"
        /\ local[p].op = "list"
        /\ result[p].code = "OK"
        /\ \E i \in 1..Len(result[p].items),
              k \in 1..Len(platform_connections) :
               /\ platform_connections[k].id = result[p].items[i].id
               /\ platform_connections[k].access_token \in
                      AccessTokens \cup InstagramTokens
               /\ Truthy(platform_connections[k].access_token)
               /\ result[p].items[i].access_token = "***"
               /\ result[p].items[i].refresh_token = Null

\* ------------------------------------------------------------------ C23

\* The statements of the handlers of the credits router.
HandlerStatements ==
    {"select organizations", "select credit_ledger", "insert credit_ledger"}

\* C23: a request to a procedure of the credits router for which
\* createContext resolved no organization ends in the step that issues it,
\* with UNAUTHORIZED when there is no authenticated user and with FORBIDDEN
\* when there is one; the handler issues no statement, no ledger entry is
\* appended and no balance changes.
C23_RejectedBeforeHandler ==
    [][\A p \in Procs :
          (/\ pc[p] = "idle"
           /\ pc'[p] # "idle"
           /\ local'[p].op \in OrgProcedures
           /\ local'[p].orgId = Null)
              => /\ pc'[p] = "done"
                 /\ result'[p].code = IF local'[p].userId = Null
                                       THEN "UNAUTHORIZED"
                                       ELSE "FORBIDDEN"
                 /\ \A i \in 1..Len(local'[p].statements) :
                        local'[p].statements[i] \notin HandlerStatements
                 /\ UNCHANGED <<credit_balance, credit_ledger>>
      ]_vars

\* A consume or grant of a user without organization has been refused
\* while the ledger holds entries.
C23_Witness ==
    /\ Len(credit_ledger) > 0
    /\ \E p \in Procs :
           /\ pc[p] = "done"
           /\ local[p].op \in {"consume", "grant"}
           /\ local[p].orgId = Null
           /\ local[p].userId # Null
           /\ \A r \in users : r.clerk_id # local[p].userId
           /\ result[p].code = "FORBIDDEN"

\* A request without authenticated user has been refused.
C23_WitnessUnauthorized ==
    \E p \in Procs :
        /\ pc[p] = "done"
        /\ local[p].op \in {"consume", "grant"}
        /\ local[p].userId = Null
        /\ result[p].code = "UNAUTHORIZED"

\* ------------------------------------------------------------------ C26

\* C26: in every reachable state, whatever the interleaving of the reads
\* and inserts of concurrent consume and grant requests, every
\* organization's credit_balance and every ledger entry's balance_after
\* is at least 0.
C26_NeverNegative ==
    /\ \A o \in Orgs : credit_balance[o] >= 0
    /\ \A k \in 1..Len(credit_ledger) : credit_ledger[k].balance_after >= 0

\* Two consumes of one organization, each within the balance it read and
\* together beyond the initial credits, have both been inserted.
C26_Witness ==
    \E i, j \in 1..Len(credit_ledger) :
        /\ i < j
        /\ credit_ledger[i].org_id = credit_ledger[j].org_id
        /\ credit_ledger[i].transaction_type = "consumption"
        /\ credit_ledger[j].transaction_type = "consumption"
        /\ 0 - (credit_ledger[i].amount + credit_ledger[j].amount)
               > InitialCredits

\* ------------------------------------------------------------------ C27

\* A step in which a consume with a valid amount gets its response.
ConsumeCompletes(p) ==
    /\ pc[p] # "done"
    /\ pc'[p] = "done"
    /\ local'[p].op = "consume"
    /\ local'[p].orgId # Null
    /\ ~NonPositive(local'[p])

\* What canAfford answers for the organization and amount of p's consume
\* in the state before the step.
WouldAfford(p) ==
    CanAffordResult(credit_balance[local'[p].orgId],
                    local'[p].amount).canAfford

\* C27 as stated: with requests applied one after another, canAfford
\* answers true exactly when a consume of the same amount in the same
\* state succeeds.
C27_CanAffordIffConsumeSucceeds ==
    [][\A p \in Procs :
          ConsumeCompletes(p)
              => (WouldAfford(p) <=> result'[p].code = "OK")
      ]_vars

\* C27, amended: canAfford changes no state and answers canAfford = true
\* exactly when the balance is at least the amount, which is exactly when
\* its shortfall is 0; a consume of the same amount in the same state
\* whose statements do not fail succeeds exactly when canAfford answers
\* true.
C27_CanAffordAgreesWithConsume ==
    [][\A p \in Procs :
          /\ (Begins(p, "canAfford") /\ result'[p].code = "OK")
                 => LET l == local'[p]
                        r == result'[p]
                    IN  /\ r.canAfford <=> credit_balance[l.orgId] >= l.amount
                        /\ r.canAfford <=> r.shortfall = 0
                        /\ r.currentBalance = credit_balance[l.orgId]
          /\ Begins(p, "canAfford")
                 => UNCHANGED <<credit_balance, credit_ledger, others>>
          /\ (ConsumeCompletes(p)
               /\ result'[p].code # "INTERNAL_SERVER_ERROR")
                 => (WouldAfford(p) <=> result'[p].code = "OK")
      ]_vars

\* canAfford has answered true for an amount equal to the balance left by
\* an earlier consume.
C27_Witness ==
    /\ Len(credit_ledger) > 0
    /\ \E p \in Procs :
           /\ pc[p] = "done"
           /\ local[p].op = "canAfford"
           /\ result[p].code = "OK"
           /\ result[p].canAfford
           /\ result[p].currentBalance = result[p].required

\* A consume has succeeded for an amount equal to the balance it read.
C27_WitnessConsume ==
    \E p \in Procs :
        /\ pc[p] = "done"
        /\ local[p].op = "consume"
        /\ result[p].code = "OK"
        /\ result[p].newBalance = 0

\* ------------------------------------------------------------------ C25

\* C25: the Instagram callback stores or updates a platform connection
\* only when there is an authenticated user and the state decodes to an
\* object whose userId is that user and whose timestamp is at most ten
\* minutes old.
C25_StoredOnlyWithFreshOwnState ==
    [][\A p \in Procs :
          (/\ Begins(p, "instagramCallback")
           /\ \/ platform_connections' # platform_connections
              \/ result'[p].to = "/connections?success")
              => LET l == local'[p]
                 IN  /\ l.userId # Null
                     /\ l.state.kind = "object"
                     /\ l.state.userId = l.userId
                     /\ "timestamp" \in DOMAIN l.state
                     /\ l.at - l.state.timestamp <= StateMaxAge
      ]_vars

\* ------------------------------------------------------------------ C24

\* C24: a call of user.me by a user who has a users row creates no
\* organization, no users row and no Creator DNA row.
C24_NothingCreatedForExistingUser ==
    [][\A p \in Procs :
          (/\ Begins(p, "me")
           /\ local'[p].userId # Null
           /\ UsersOf(local'[p].userId) # {})
              => UNCHANGED <<credit_balance, users, creator_dna>>
      ]_vars

\* ------------------------------------------------------------------ C28

\* C28: an organization inserted by user.me has credit_balance 1000 and no
\* ledger entry, and with grant and consume applied one after another the
\* credit_balance of every organization user.me has inserted is 1000 plus
\* the sum of the amounts of its ledger entries.
C28_NewOrganizationBalance ==
    [][/\ \A o \in DOMAIN credit_balance' \ Organizations :
              /\ credit_balance'[o] = 1000
              /\ LedgerOfNext(o) = <<>>
       /\ \A o \in DOMAIN credit_balance' \ Orgs :
              credit_balance'[o] = 1000 + SumAmounts(LedgerOfNext(o))
      ]_vars

\* A user whom user.me gave an organization has been granted credits and
\* has consumed some.
C28_Witness ==
    \E o \in Organizations \ Orgs :
        /\ AllIdle
        /\ \E r \in users : r.org_id = o
        /\ \E i, j \in 1..Len(LedgerOf(o)) :
               /\ LedgerOf(o)[i].transaction_type = "grant"
               /\ LedgerOf(o)[j].transaction_type = "consumption"

\* ------------------------------------------------------------------ C29

\* The three procedures that answer a pending recommendation, and the
\* status each of them sets.
Answers == {"accept", "acceptWithModifications", "reject"}

StatusSetBy(op) ==
    CASE op = "accept" -> "accepted"
      [] op = "acceptWithModifications" -> "modified"
      [] op = "reject" -> "rejected"

\* C29: accept, acceptWithModifications and reject change a recommendation
\* only when it belongs to the calling organization and is pending, and
\* then set its status to accepted, modified and rejected respectively;
\* applied to a recommendation in another status or of another
\* organization they return an error and leave every field of every
\* recommendation unchanged.
C29_OnlyOwnPendingAnswered ==
    [][\A p \in Procs :
          (pc[p] = "idle" /\ pc'[p] # "idle" /\ local'[p].op \in Answers)
              => LET l == local'[p]
                     r == result'[p]
                 IN  /\ Len(recommendations') = Len(recommendations)
                     /\ \A i \in 1..Len(recommendations) :
                            LET old == recommendations[i]
                                new == recommendations'[i]
                            IN  IF /\ old.id = l.id
                                   /\ old.org_id = l.orgId
                                   /\ old.status = "pending"
                                THEN \/ r.code # "OK" /\ new = old
                                     \/ /\ r.code = "OK"
                                        /\ r.data = new
                                        /\ new.status = StatusSetBy(l.op)
                                        /\ new.id = old.id
                                        /\ new.org_id = old.org_id
                                ELSE /\ new = old
                                     /\ old.id = l.id => r.code # "OK"
                     /\ (\A i \in 1..Len(recommendations) :
                             recommendations[i].id # l.id) => r.code # "OK"
      ]_vars

\* An answer to a recommendation of another organization has been
\* refused.
C29_Witness ==
    \E p \in Procs :
        /\ pc[p] = "done"
        /\ local[p].op \in Answers
        /\ result[p].code = "INTERNAL_SERVER_ERROR"
        /\ \E i \in 1..Len(recommendations) :
               /\ recommendations[i].id = local[p].id
               /\ recommendations[i].org_id # local[p].orgId
               /\ recommendations[i].status = "pending"

\* A reject of an accepted recommendation of the caller's organization has
\* been refused.
C29_WitnessStatus ==
    \E p \in Procs :
        /\ pc[p] = "done"
        /\ local[p].op = "reject"
        /\ result[p].code = "INTERNAL_SERVER_ERROR"
        /\ \E i \in 1..Len(recommendations) :
               /\ recommendations[i].id = local[p].id
               /\ recommendations[i].org_id = local[p].orgId
               /\ recommendations[i].status = "accepted"

\* ------------------------------------------------------------------ C30

\* C30: a recommendation is created pending; a recommendation that is not
\* pending never becomes pending again, and its status changes only to
\* published, in a step of markPublished.
C30_StatusLifecycle ==
    [][/\ Len(recommendations') >= Len(recommendations)
       /\ \A i \in 1..Len(recommendations') :
              IF i > Len(recommendations)
              THEN /\ recommendations'[i].status = "pending"
                   /\ \E p \in Procs : Begins(p, "create")
              ELSE LET old == recommendations[i].status
                       new == recommendations'[i].status
                   IN  old # "pending"
                           => /\ new # "pending"
                              /\ new # old
                                     => /\ new = "published"
                                        /\ \E p \in Procs :
                                               Begins(p, "markPublished")
      ]_vars

\* A recommendation has been accepted and then published.
C30_Witness ==
    \E i \in 1..Len(recommendations) :
        /\ recommendations[i].status = "published"
        /\ recommendations[i].accepted_at # Null

\* A rejected recommendation has been published.
C30_WitnessRejected ==
    \E i \in 1..Len(recommendations) :
        /\ recommendations[i].status = "published"
        /\ "rejection_reason" \in DOMAIN recommendations[i].user_modifications

====
